---- MODULE Spec2Model ----
(***************************************************************************)
(* python_dict_wrapper: DictWrapper / ListWrapper proxies over a heap of   *)
(* caller-owned dicts and lists.                                           *)
(*                                                                         *)
(* The heap (dicts, lists) is what the caller owns.  px holds the caller's *)
(* variables that are bound to proxies or to iterators over them.  last    *)
(* records the latest call: what it returned and what it raised.           *)
(***************************************************************************)
EXTENDS Integers, Sequences, FiniteSets, TLC

VARIABLES dicts, lists, px, last

vars == <<dicts, lists, px, last>>

\* ---------------------------------------------------------------- bounds
\* longest list the caller lets a sequence grow to
MaxLen == 2
\* number of caller variables that can hold a proxy
MaxProxies == 2

ProxyIds == 1..MaxProxies
\* Python indices: -1 is the last element, MaxLen is always out of range
Indices == (0 - 1)..MaxLen

\* ---------------------------------------------------------------- values
\* A Python value is a record: a scalar carries its class and a number, a
\* dict or list carries the identity of the heap object.
PyNone == [kind |-> "NoneType", val |-> 0]
PyTrue == [kind |-> "bool", val |-> 1]
Int1 == [kind |-> "int", val |-> 1]
\* a float's val counts halves: 3 is 1.5
Flt15 == [kind |-> "float", val |-> 3]
StrA == [kind |-> "str", val |-> 1]
StrB == [kind |-> "str", val |-> 2]
DictRef(i) == [kind |-> "dict", val |-> i]
ListRef(i) == [kind |-> "list", val |-> i]
\* no value: the slot of an argument or result that a call does not have
NoVal == [kind |-> "none", val |-> 0]
\* an empty caller variable
NoProxy == [cls |-> "none"]

DictIds == {1, 2}
ListIds == {1}

\* Nesting level of the heap objects: root dict, its list, the leaf dict.
\* JSON data is a tree, so a container is only ever stored into a container
\* of a lower level.
Level(v) ==
  IF v.kind = "dict" THEN (IF v.val = 1 THEN 0 ELSE 2)
  ELSE IF v.kind = "list" THEN 1
  ELSE 3

IsRef(v) == v.kind \in {"dict", "list"}

\* isinstance(value, cls): bool is a subclass of int, ListWrapper of list
IsInstance(v, cls) ==
  \/ v.kind = cls
  \/ v.kind = "bool" /\ cls = "int"
  \/ v.kind = "ListWrapper" /\ cls = "list"

\* ------------------------------------------------------- Python equality
\* numeric value in halves, so that True == 1 == 1.0 as in Python
Num(v) == IF v.kind = "float" THEN v.val ELSE 2 * v.val

IsNum(v) == v.kind \in {"bool", "int", "float"}

RECURSIVE PyEq(_, _, _, _)
\* a == b over the heap (ds, ls): scalars by value, dicts and lists by
\* content, a ListWrapper as the list it inherits from, anything else by
\* identity
PyEq(ds, ls, a, b) ==
  LET Content(x) == IF x.kind = "list" THEN ls[x.val] ELSE x.own
  IN
  IF IsNum(a) /\ IsNum(b) THEN Num(a) = Num(b)
  ELSE IF a.kind = "dict" /\ b.kind = "dict" THEN
    /\ DOMAIN ds[a.val] = DOMAIN ds[b.val]
    /\ \A k \in DOMAIN ds[a.val] : PyEq(ds, ls, ds[a.val][k], ds[b.val][k])
  ELSE IF IsInstance(a, "list") /\ IsInstance(b, "list") THEN
    /\ Len(Content(a)) = Len(Content(b))
    /\ \A i \in 1..Len(Content(a)) : PyEq(ds, ls, Content(a)[i], Content(b)[i])
  ELSE a = b

\* index of the first element of s equal to v, 0 if there is none
FirstIndex(ds, ls, s, v) ==
  IF \E i \in 1..Len(s) : PyEq(ds, ls, s[i], v)
  THEN CHOOSE i \in 1..Len(s) :
         /\ PyEq(ds, ls, s[i], v)
         /\ \A j \in 1..(i - 1) : ~PyEq(ds, ls, s[j], v)
  ELSE 0

\* s without its element at position i
RemoveAt(s, i) == SubSeq(s, 1, i - 1) \o SubSeq(s, i + 1, Len(s))

\* list[index]: a negative index counts from the end
NormIndex(index, n) == IF index < 0 THEN index + n ELSE index

InRange(index, n) == NormIndex(index, n) >= 0 /\ NormIndex(index, n) < n

\* ------------------------------------------------------------ key prefix
\* one entry of a prefix list: a string or None
Prefix(str) == [isNone |-> FALSE, s |-> str]
NonePrefix == [isNone |-> TRUE, s |-> ""]
\* the key_prefix argument as passed: None, one string, or a list
KeyPrefixNone == [t |-> "none", v |-> <<>>]
KeyPrefixStr(str) == [t |-> "str", v |-> <<Prefix(str)>>]
KeyPrefixList(seq) == [t |-> "list", v |-> seq]

\* "%s" % x
PyStr(e) == IF e.isNone THEN "None" ELSE e.s

\* key_prefix if isinstance(key_prefix, list) else [key_prefix]
NormalizePrefix(key_prefix) ==
  IF key_prefix.t = "list" THEN key_prefix.v
  ELSE IF key_prefix.t = "str" THEN key_prefix.v
  ELSE <<NonePrefix>>

\* ------------------------------------------------------------ the proxies
DictWrapper__init__(data, strict, key_prefix, mutable) ==
  [cls |-> "DictWrapper", data |-> data, strict |-> strict,
   key_prefixes |-> NormalizePrefix(key_prefix), mutable |-> mutable]

\* list.__init__ copies data's elements into the wrapper itself
ListWrapper__init__(ls, data, strict, key_prefix, mutable) ==
  [cls |-> "ListWrapper", own |-> ls[data.val], data |-> data,
   strict |-> strict, key_prefix |-> key_prefix, mutable |-> mutable]

RECURSIVE FixKeyLastMatch(_, _, _, _)
\* _fix_key with a loop that does not stop at its first match
FixKeyLastMatch(prefixes, d, key, i) ==
  IF i > Len(prefixes) THEN key
  ELSE IF FixKeyLastMatch(prefixes, d, key, i + 1) # key
       THEN FixKeyLastMatch(prefixes, d, key, i + 1)
       ELSE IF (PyStr(prefixes[i]) \o key) \in DOMAIN d
            THEN PyStr(prefixes[i]) \o key
            ELSE key

RECURSIVE FixKeyFrom(_, _, _, _)
\* the loop of _fix_key from the i-th prefix on
FixKeyFrom(prefixes, d, key, i) ==
  IF i > Len(prefixes) THEN key
  ELSE IF (PyStr(prefixes[i]) \o key) \in DOMAIN d
       THEN PyStr(prefixes[i]) \o key
       ELSE FixKeyFrom(prefixes, d, key, i + 1)

\* __key_prefixes__ is always a list, so the "is None" test never holds
DictWrapper_fix_key(self, d, key) == FixKeyFrom(self.key_prefixes, d, key, 1)

\* __getattr__ that leaves key_prefix at its default for the proxies it
\* builds
WrapDictChildNoPrefix(ls, self, value) ==
  IF value.kind = "dict"
  THEN DictWrapper__init__(value, self.strict, KeyPrefixNone, self.mutable)
  ELSE IF value.kind = "list"
  THEN ListWrapper__init__(ls, value, self.strict, KeyPrefixNone,
                           self.mutable)
  ELSE value

\* the proxy a read gives for a compound value, the value itself otherwise
WrapDictChild(ls, self, value) ==
  IF value.kind = "dict"
  THEN DictWrapper__init__(value, self.strict,
                           KeyPrefixList(self.key_prefixes), self.mutable)
  ELSE IF value.kind = "list"
  THEN ListWrapper__init__(ls, value, self.strict,
                           KeyPrefixList(self.key_prefixes), self.mutable)
  ELSE value

\* __getitem__ that leaves mutable at its default for the proxies it builds
WrapListChildMutable(ls, self, value) ==
  IF value.kind = "dict"
  THEN DictWrapper__init__(value, self.strict, self.key_prefix, TRUE)
  ELSE IF value.kind = "list"
  THEN ListWrapper__init__(ls, value, self.strict, self.key_prefix, TRUE)
  ELSE value

WrapListChild(ls, self, value) ==
  IF value.kind = "dict"
  THEN DictWrapper__init__(value, self.strict, self.key_prefix, self.mutable)
  ELSE IF value.kind = "list"
  THEN ListWrapper__init__(ls, value, self.strict, self.key_prefix,
                           self.mutable)
  ELSE value

\* ------------------------------------------------------------- the calls
\* The outcome of the latest call: the operation, what it returned, and the
\* error it raised (err: the kind of failure, exc: the Python exception
\* class, msgkey: the key or attribute the message names).
Returned(op, ret) ==
  [op |-> op, ret |-> ret, err |-> "none", exc |-> "none", msgkey |-> ""]

Raised(op, err, exc, msgkey) ==
  [op |-> op, ret |-> NoVal, err |-> err, exc |-> exc, msgkey |-> msgkey]

\* self.__private_data__[key] for the key that name resolves to
AttrRead(ds, self, name) ==
  ds[self.data.val][DictWrapper_fix_key(self, ds[self.data.val], name)]

\* self.__private_data__[index]
ItemRead(ls, self, index) ==
  ls[self.data.val][NormIndex(index, Len(ls[self.data.val])) + 1]

\* the options of the wrap() call a proxy descends from
Derived(proxy, origin) == proxy @@ [origin |-> origin]

\* q = wrap(data, strict, key_prefix, mutable)
wrap(q, data, opts) ==
  /\ IF data.kind = "dict" THEN
       /\ px' = [px EXCEPT ![q] = Derived(
                   DictWrapper__init__(data, opts.strict, opts.key_prefix,
                                       opts.mutable), opts)]
       /\ last' = Returned("wrap", px'[q])
     ELSE IF data.kind = "list" THEN
       /\ px' = [px EXCEPT ![q] = Derived(
                   ListWrapper__init__(lists, data, opts.strict,
                                       opts.key_prefix, opts.mutable), opts)]
       /\ last' = Returned("wrap", px'[q])
     ELSE
       \* building the TypeError message reads data.__class__.__name___,
       \* which no class has
       /\ last' = Raised("wrap", "NoClassName",
                         "AttributeError", "__name___")
       /\ UNCHANGED px
  /\ UNCHANGED <<dicts, lists>>

\* q = px[p].<name>       (DictWrapper.__getattr__)
DictWrapper__getattr__(q, p, name) ==
  /\ px[p].cls = "DictWrapper"
  /\ LET self == px[p]
         d == dicts[self.data.val]
         key == DictWrapper_fix_key(self, d, name)
     IN
     IF key \notin DOMAIN d THEN
       /\ last' = Raised("getattr", "NoSuchField",
                         "AttributeError", key)
       /\ UNCHANGED px
     ELSE
       \* reading a field that holds a ListWrapper is not followed
       /\ d[key].kind # "ListWrapper"
       /\ IF IsRef(d[key]) THEN
            /\ px' = [px EXCEPT ![q] =
                        Derived(WrapDictChild(lists, self,
                                              AttrRead(dicts, self, name)),
                                self.origin)]
            /\ last' = Returned("getattr", px'[q])
          ELSE
            /\ q = p
            /\ last' = Returned("getattr", AttrRead(dicts, self, name))
            /\ UNCHANGED px
  /\ UNCHANGED <<dicts, lists>>

\* px[p].<name> = value   (DictWrapper.__setattr__)
DictWrapper__setattr__(p, name, value) ==
  /\ px[p].cls = "DictWrapper"
  /\ Level(value) > Level(px[p].data)
  /\ LET self == px[p]
         d == dicts[self.data.val]
         key == DictWrapper_fix_key(self, d, name)
     IN
     IF ~self.mutable THEN
       /\ last' = Raised("setattr", "Immutable",
                         "AttributeError", "")
       /\ UNCHANGED dicts
     ELSE IF key \notin DOMAIN d THEN
       /\ last' = Raised("setattr", "NoSuchField",
                         "AttributeError", key)
       /\ UNCHANGED dicts
     ELSE IF self.strict /\ ~IsInstance(value, d[key].kind) THEN
       /\ last' = Raised("setattr", "TypeMismatch",
                         "TypeError", key)
       /\ UNCHANGED dicts
     ELSE
       /\ dicts' = [dicts EXCEPT ![self.data.val][key] = value]
       /\ last' = Returned("setattr", NoVal)
  /\ UNCHANGED <<lists, px>>

\* q = px[p][index]       (ListWrapper.__getitem__)
ListWrapper__getitem__(q, p, index) ==
  /\ px[p].cls = "ListWrapper"
  /\ LET self == px[p]
         l == lists[self.data.val]
         value == ItemRead(lists, self, index)
     IN
     IF ~InRange(index, Len(l)) THEN
       /\ last' = Raised("getitem", "IndexOutOfRange",
                         "IndexError", "")
       /\ UNCHANGED px
     ELSE IF IsRef(value) THEN
       /\ px' = [px EXCEPT ![q] =
                   Derived(WrapListChild(lists, self, value), self.origin)]
       /\ last' = Returned("getitem", px'[q])
     ELSE
       /\ q = p
       /\ last' = Returned("getitem", value)
       /\ UNCHANGED px
  /\ UNCHANGED <<dicts, lists>>

\* px[p][index] = value   (ListWrapper.__setitem__): the wrapped list is
\* written first, then the wrapper's own copy, which has its own length
ListWrapper__setitem__(p, index, value) ==
  /\ px[p].cls = "ListWrapper"
  /\ Level(value) > Level(px[p].data)
  /\ LET self == px[p]
         l == lists[self.data.val]
     IN
     IF ~self.mutable THEN
       /\ last' = Raised("setitem", "Immutable",
                         "AttributeError", "")
       /\ UNCHANGED <<lists, px>>
     ELSE IF ~InRange(index, Len(l)) THEN
       /\ last' = Raised("setitem", "IndexOutOfRange",
                         "IndexError", "")
       /\ UNCHANGED <<lists, px>>
     ELSE
       /\ lists' = [lists EXCEPT
                      ![self.data.val][NormIndex(index, Len(l)) + 1] = value]
       /\ IF ~InRange(index, Len(self.own)) THEN
            /\ last' = Raised("setitem", "IndexOutOfRange", "IndexError", "")
            /\ UNCHANGED px
          ELSE
            /\ px' = [px EXCEPT
                        ![p].own[NormIndex(index, Len(self.own)) + 1] = value]
            /\ last' = Returned("setitem", NoVal)
  /\ UNCHANGED dicts

\* append that extends the wrapper's own elements only
AppendToCopyOnly(p, item) ==
  /\ px[p].cls = "ListWrapper"
  /\ Level(item) > Level(px[p].data)
  /\ IF ~px[p].mutable THEN
       /\ last' = Raised("append", "Immutable", "AttributeError", "")
       /\ UNCHANGED px
     ELSE
       /\ Len(px[p].own) < MaxLen
       /\ px' = [px EXCEPT ![p].own = Append(px[p].own, item)]
       /\ last' = Returned("append", NoVal)
  /\ UNCHANGED <<dicts, lists>>

\* px[p].append(item)     (ListWrapper.append)
ListWrapper_append(p, item) ==
  /\ px[p].cls = "ListWrapper"
  /\ Level(item) > Level(px[p].data)
  /\ LET self == px[p]
         l == lists[self.data.val]
     IN
     IF ~self.mutable THEN
       /\ last' = Raised("append", "Immutable",
                         "AttributeError", "")
       /\ UNCHANGED <<lists, px>>
     ELSE
       /\ Len(l) < MaxLen
       /\ Len(self.own) < MaxLen
       /\ px' = [px EXCEPT ![p].own = Append(self.own, item)]
       /\ lists' = [lists EXCEPT ![self.data.val] = Append(l, item)]
       /\ last' = Returned("append", NoVal)
  /\ UNCHANGED dicts

\* px[p].remove(item)     (ListWrapper.remove): the wrapper's own copy is
\* searched first, then the wrapped list
ListWrapper_remove(p, item) ==
  /\ px[p].cls = "ListWrapper"
  /\ LET self == px[p]
         l == lists[self.data.val]
         i == FirstIndex(dicts, lists, self.own, item)
         j == FirstIndex(dicts, lists, l, item)
     IN
     IF ~self.mutable THEN
       /\ last' = Raised("remove", "Immutable",
                         "AttributeError", "")
       /\ UNCHANGED <<lists, px>>
     ELSE IF i = 0 THEN
       /\ last' = Raised("remove", "ValueNotFound",
                         "ValueError", "")
       /\ UNCHANGED <<lists, px>>
     ELSE
       /\ px' = [px EXCEPT ![p].own = RemoveAt(self.own, i)]
       /\ IF j = 0 THEN
            /\ last' = Raised("remove", "ValueNotFound",
                              "ValueError", "")
            /\ UNCHANGED lists
          ELSE
            /\ lists' = [lists EXCEPT ![self.data.val] = RemoveAt(l, j)]
            /\ last' = Returned("remove", NoVal)
  /\ UNCHANGED dicts

PyBool(b) == [kind |-> "bool", val |-> IF b THEN 1 ELSE 0]

\* len(px[p]): ListWrapper defines no __len__, so this is list's own
ListWrapper__len__(p) ==
  /\ px[p].cls = "ListWrapper"
  /\ last' = Returned("len", [kind |-> "int", val |-> Len(px[p].own)])
  /\ UNCHANGED <<dicts, lists, px>>

\* a proxy as an operand of ==: DictWrapper defines no __eq__ and compares
\* as an object; ListWrapper compares as the list it inherits from
Operand(proxy, id) ==
  IF proxy.cls = "ListWrapper"
  THEN [kind |-> "ListWrapper", own |-> proxy.own]
  ELSE [kind |-> "DictWrapper", id |-> id]

\* px[p] == px[q]
ProxyEq(p, q) ==
  /\ px[p].cls # "none"
  /\ px[q].cls # "none"
  /\ last' = Returned("eq", PyBool(PyEq(dicts, lists, Operand(px[p], p),
                                  Operand(px[q], q))))
  /\ UNCHANGED <<dicts, lists, px>>

\* px[p] == value, value a dict, a list or a scalar of the caller
PlainEq(p, value) ==
  /\ px[p].cls # "none"
  /\ last' = Returned("eq", PyBool(PyEq(dicts, lists, Operand(px[p], p),
                                        value)))
  /\ UNCHANGED <<dicts, lists, px>>

DictWrapper_to_dict(self) == self.data

\* to_list that returns a new list made from the wrapper's own elements
ToListCopy(self) == ListRef(0)

ListWrapper_to_list(self) == self.data

\* what unwrap() returns for a proxy
Unwrapped(proxy) ==
  IF proxy.cls = "DictWrapper" THEN DictWrapper_to_dict(proxy)
  ELSE ListWrapper_to_list(proxy)

\* unwrap(px[p]), or unwrap(value) when p = 0
unwrap(p, value) ==
  /\ IF p = 0 THEN
       last' = Returned("unwrap", value)
     ELSE
       /\ px[p].cls # "none"
       /\ value = NoVal
       /\ last' = Returned("unwrap", Unwrapped(px[p]))
  /\ UNCHANGED <<dicts, lists, px>>

\* a ListWrapper as a value stored in a dict
Stored(proxy) ==
  [kind |-> "ListWrapper", own |-> proxy.own, data |-> proxy.data,
   strict |-> proxy.strict, key_prefix |-> proxy.key_prefix,
   mutable |-> proxy.mutable]

\* px[p].<name> += xs: __getattr__ builds a ListWrapper, list.__iadd__
\* extends that wrapper's own elements, __setattr__ stores the wrapper
DictWrapper_iadd(p, name, xs) ==
  /\ px[p].cls = "DictWrapper"
  /\ LET self == px[p]
         d == dicts[self.data.val]
         key == DictWrapper_fix_key(self, d, name)
         w == WrapDictChild(lists, self, AttrRead(dicts, self, name))
         sum == Stored([w EXCEPT !.own = w.own \o xs])
     IN
     IF key \notin DOMAIN d THEN
       /\ last' = Raised("iadd", "NoSuchField", "AttributeError", key)
       /\ UNCHANGED dicts
     ELSE IF d[key].kind # "list" THEN
       \* a scalar or a DictWrapper has no += with a list
       /\ d[key].kind # "ListWrapper"
       /\ last' = Raised("iadd", "UnsupportedOperand", "TypeError", "")
       /\ UNCHANGED dicts
     ELSE
       /\ Len(w.own) + Len(xs) <= MaxLen
       /\ IF ~self.mutable THEN
            /\ last' = Raised("iadd", "Immutable", "AttributeError", "")
            /\ UNCHANGED dicts
          ELSE IF self.strict /\ ~IsInstance(sum, d[key].kind) THEN
            /\ last' = Raised("iadd", "TypeMismatch", "TypeError", key)
            /\ UNCHANGED dicts
          ELSE
            /\ dicts' = [dicts EXCEPT ![self.data.val][key] = sum]
            /\ last' = Returned("iadd", NoVal)
  /\ UNCHANGED <<lists, px>>

\* px[p] += xs: ListWrapper defines no __iadd__, so this is list's own
ListWrapper__iadd__(p, xs) ==
  /\ px[p].cls = "ListWrapper"
  /\ Len(px[p].own) + Len(xs) <= MaxLen
  /\ px' = [px EXCEPT ![p].own = px[p].own \o xs]
  /\ last' = Returned("iadd", px'[p])
  /\ UNCHANGED <<dicts, lists>>

\* d with value stored under key, d without key
DictSet(d, key, value) ==
  [k \in DOMAIN d \cup {key} |-> IF k = key THEN value ELSE d[k]]

DictDel(d, key) == [k \in DOMAIN d \ {key} |-> d[k]]

\* the first argument of add_attribute and del_attribute is a DictWrapper:
\* the proxy in px[p], or the plain value w when p = 0
IsDictWrapperArg(p) == p # 0 /\ px[p].cls = "DictWrapper"

\* add_attribute that refuses an immutable DictWrapper
AddAttributeGated(p, w, attribute, value) ==
  /\ IF p = 0 THEN w # NoVal ELSE px[p].cls # "none" /\ w = NoVal
  /\ IF ~IsDictWrapperArg(p) THEN
       /\ last' = Raised("add_attribute", "NoClassName",
                         "AttributeError", "__name___")
       /\ UNCHANGED dicts
     ELSE IF ~px[p].mutable THEN
       /\ last' = Raised("add_attribute", "Immutable", "AttributeError", "")
       /\ UNCHANGED dicts
     ELSE
       /\ dicts' = [dicts EXCEPT ![px[p].data.val] =
                       DictSet(dicts[px[p].data.val], attribute, value)]
       /\ last' = Returned("add_attribute", NoVal)
  /\ UNCHANGED <<lists, px>>

\* add_attribute(px[p], attribute, value), or add_attribute(w, ...) when
\* p = 0
add_attribute(p, w, attribute, value) ==
  /\ IF p = 0 THEN w # NoVal ELSE px[p].cls # "none" /\ w = NoVal
  /\ IF ~IsDictWrapperArg(p) THEN
       \* building the TypeError message reads wrapper.__class__.__name___,
       \* which no class has
       /\ last' = Raised("add_attribute", "NoClassName",
                         "AttributeError", "__name___")
       /\ UNCHANGED dicts
     ELSE
       /\ dicts' = [dicts EXCEPT ![px[p].data.val] =
                       DictSet(dicts[px[p].data.val], attribute, value)]
       /\ last' = Returned("add_attribute", NoVal)
  /\ UNCHANGED <<lists, px>>

\* del_attribute that returns the value and leaves the key in place
DelAttributeKeep(p, w, attribute) ==
  /\ IF p = 0 THEN w # NoVal ELSE px[p].cls # "none" /\ w = NoVal
  /\ IF ~IsDictWrapperArg(p) THEN
       last' = Raised("del_attribute", "NoClassName",
                      "AttributeError", "__name___")
     ELSE IF attribute \notin DOMAIN dicts[px[p].data.val] THEN
       last' = Raised("del_attribute", "KeyError", "KeyError", attribute)
     ELSE
       last' = Returned("del_attribute", dicts[px[p].data.val][attribute])
  /\ UNCHANGED <<dicts, lists, px>>

\* del_attribute(px[p], attribute), or del_attribute(w, attribute) when
\* p = 0
del_attribute(p, w, attribute) ==
  /\ IF p = 0 THEN w # NoVal ELSE px[p].cls # "none" /\ w = NoVal
  /\ IF ~IsDictWrapperArg(p) THEN
       /\ last' = Raised("del_attribute", "NoClassName",
                         "AttributeError", "__name___")
       /\ UNCHANGED dicts
     ELSE IF attribute \notin DOMAIN dicts[px[p].data.val] THEN
       \* wrapper.__private_data__[attribute] raises before the del
       /\ last' = Raised("del_attribute", "KeyError", "KeyError", attribute)
       /\ UNCHANGED dicts
     ELSE
       /\ dicts' = [dicts EXCEPT ![px[p].data.val] =
                       DictDel(dicts[px[p].data.val], attribute)]
       /\ last' = Returned("del_attribute",
                           dicts[px[p].data.val][attribute])
  /\ UNCHANGED <<lists, px>>

\* q = iter(px[p])       (ListWrapper.__iter__): the iterator keeps the
\* ListWrapper it was made from.  yielded and snap are history: what the
\* iterator has produced so far and the wrapped list as it was at iter().
ListWrapper__iter__(q, p) ==
  /\ px[p].cls = "ListWrapper"
  /\ px' = [px EXCEPT ![q] =
              [cls |-> "_ListWrapperIterator", idx |-> 0,
               list_wrapper |-> px[p], origin |-> px[p].origin,
               yielded |-> <<>>, snap |-> lists[px[p].data.val]]]
  /\ last' = Returned("iter", NoVal)
  /\ UNCHANGED <<dicts, lists>>

\* an iterator over the elements the ListWrapper copied when it was built
IterListOwnCopy(ls, list_wrapper) == list_wrapper.own

\* the list the iterator indexes: list_wrapper[idx] is
\* ListWrapper.__getitem__, which reads the wrapped list
IterList(ls, list_wrapper) == ls[list_wrapper.data.val]

\* q = next(px[p])       (_ListWrapperIterator.__next__); a scalar is
\* returned without being bound to a caller variable (q = p)
ListWrapperIterator__next__(q, p) ==
  /\ px[p].cls = "_ListWrapperIterator"
  /\ LET self == px[p]
         l == IterList(lists, self.list_wrapper)
         value == l[self.idx + 1]
         item == WrapListChild(lists, self.list_wrapper, value)
     IN
     IF ~InRange(self.idx, Len(l)) THEN
       \* IndexError from __getitem__ becomes StopIteration
       /\ last' = Raised("next", "Stop", "StopIteration", "")
       /\ UNCHANGED px
     ELSE IF IsRef(value) THEN
       /\ q # p
       /\ px' = [px EXCEPT
                   ![p].idx = self.idx + 1,
                   ![p].yielded = Append(self.yielded, item),
                   ![q] = Derived(item, self.origin)]
       /\ last' = Returned("next", px'[q])
     ELSE
       /\ q = p
       /\ px' = [px EXCEPT
                   ![p].idx = self.idx + 1,
                   ![p].yielded = Append(self.yielded, item)]
       /\ last' = Returned("next", item)
  /\ UNCHANGED <<dicts, lists>>

\* ------------------------------------------------------ the caller's data
\* the options of a wrap() call
Options(strict, key_prefix, mutable) ==
  [strict |-> strict, key_prefix |-> key_prefix, mutable |-> mutable]

DefaultOptions == Options(FALSE, KeyPrefixNone, TRUE)

\* field names the caller asks for
Names == {"l", "f"}
\* values the caller writes to fields, and to list elements
FieldValues == {StrB}
ElemValues == {StrA, DictRef(2)}
\* arguments of wrap(), unwrap() and == that are not proxies
Plain == {DictRef(1), ListRef(1), StrA}
WrapOptions ==
  {DefaultOptions, Options(FALSE, KeyPrefixNone, FALSE),
   Options(TRUE, KeyPrefixNone, FALSE)}

\* the caller wraps with one set of options throughout a run
SameOptions(opts) ==
  \A p \in ProxyIds : px[p].cls # "none" => px[p].origin = opts

Init ==
  /\ dicts = [i \in DictIds |->
               IF i = 1 THEN [k \in {"l"} |-> ListRef(1)]
               ELSE [k \in {"f"} |-> StrA]]
  /\ lists = [i \in ListIds |-> <<StrA, DictRef(2)>>]
  /\ px = [i \in ProxyIds |-> NoProxy]
  /\ last = Returned("init", NoVal)

Next ==
  \/ \E q \in ProxyIds, data \in Plain, opts \in WrapOptions :
       SameOptions(opts) /\ wrap(q, data, opts)
  \/ \E q \in ProxyIds, p \in ProxyIds, name \in Names :
       DictWrapper__getattr__(q, p, name)
  \/ \E p \in ProxyIds, name \in Names, value \in FieldValues :
       DictWrapper__setattr__(p, name, value)
  \/ \E q \in ProxyIds, p \in ProxyIds, index \in Indices :
       ListWrapper__getitem__(q, p, index)
  \/ \E p \in ProxyIds, index \in Indices, value \in ElemValues :
       ListWrapper__setitem__(p, index, value)
  \/ \E p \in ProxyIds, item \in ElemValues : ListWrapper_append(p, item)
  \/ \E p \in ProxyIds, item \in ElemValues : ListWrapper_remove(p, item)
  \/ \E p \in ProxyIds : ListWrapper__len__(p)
  \/ \E p \in ProxyIds, q \in ProxyIds : ProxyEq(p, q)
  \/ \E p \in ProxyIds, value \in Plain : PlainEq(p, value)
  \/ \E p \in ProxyIds \cup {0}, value \in Plain \cup {NoVal} :
       unwrap(p, value)

Spec == Init /\ [][Next]_vars

\* the lists the caller adds with +=
Addends == {<<v>> : v \in ElemValues}

\* reads, append and concatenation-assignment
NextConcat ==
  \/ \E q \in ProxyIds, data \in Plain, opts \in WrapOptions :
       SameOptions(opts) /\ wrap(q, data, opts)
  \/ \E q \in ProxyIds, p \in ProxyIds, name \in Names :
       DictWrapper__getattr__(q, p, name)
  \/ \E q \in ProxyIds, p \in ProxyIds, index \in Indices :
       ListWrapper__getitem__(q, p, index)
  \/ \E p \in ProxyIds, item \in ElemValues : ListWrapper_remove(p, item)
  \/ \E p \in ProxyIds, name \in Names, xs \in Addends :
       DictWrapper_iadd(p, name, xs)
  \/ \E p \in ProxyIds, xs \in Addends : ListWrapper__iadd__(p, xs)

SpecConcat == Init /\ [][NextConcat]_vars

\* ---------------------------------------------- strict writes of all kinds
\* one value of every JSON kind
KindValues == {PyNone, PyTrue, Int1, Flt15, StrA, DictRef(2), ListRef(1)}
KindOptions ==
  {Options(TRUE, KeyPrefixNone, TRUE), Options(FALSE, KeyPrefixNone, TRUE)}

\* the root dict's field holds a value of any kind
InitKinds ==
  /\ \E v \in KindValues :
       dicts = [i \in DictIds |->
                 IF i = 1 THEN [k \in {"l"} |-> v] ELSE [k \in {"f"} |-> StrA]]
  /\ lists = [i \in ListIds |-> <<StrA>>]
  /\ px = [i \in ProxyIds |-> NoProxy]
  /\ last = Returned("init", NoVal)

NextKinds ==
  \/ \E q \in ProxyIds, opts \in KindOptions :
       SameOptions(opts) /\ wrap(q, DictRef(1), opts)
  \/ \E q \in ProxyIds, p \in ProxyIds, name \in Names :
       DictWrapper__getattr__(q, p, name)
  \/ \E p \in ProxyIds, name \in Names, value \in KindValues :
       DictWrapper__setattr__(p, name, value)

SpecKinds == InitKinds /\ [][NextKinds]_vars

\* ------------------------------------------------------------ prefixed keys
PrefixKeys == {"f", "@f", "_f", "Nonef"}
PrefixNames == {"f", "g"}
\* what each key holds at first, and the value the caller writes
FirstValue(k) ==
  IF k = "f" THEN StrA
  ELSE IF k = "@f" THEN StrB
  ELSE IF k = "_f" THEN Int1
  ELSE PyTrue
PrefixValues == {Flt15}
PrefixOptions ==
  {DefaultOptions,
   Options(FALSE, KeyPrefixStr("@"), TRUE),
   Options(FALSE, KeyPrefixList(<<Prefix("_"), Prefix("@")>>), TRUE),
   Options(FALSE, KeyPrefixList(<<Prefix("@"), Prefix("_")>>), TRUE)}

\* the root dict has any of the keys, with and without a prefix
InitPrefix ==
  /\ \E keys \in SUBSET PrefixKeys :
       dicts = [i \in DictIds |->
                 IF i = 1 THEN [k \in keys |-> FirstValue(k)]
                 ELSE [k \in {"f"} |-> StrA]]
  /\ lists = [i \in ListIds |-> <<>>]
  /\ px = [i \in ProxyIds |-> NoProxy]
  /\ last = Returned("init", NoVal)

NextPrefix ==
  \/ \E q \in ProxyIds, opts \in PrefixOptions :
       SameOptions(opts) /\ wrap(q, DictRef(1), opts)
  \/ \E q \in ProxyIds, p \in ProxyIds, name \in PrefixNames :
       DictWrapper__getattr__(q, p, name)
  \/ \E p \in ProxyIds, name \in PrefixNames, value \in PrefixValues :
       DictWrapper__setattr__(p, name, value)

SpecPrefix == InitPrefix /\ [][NextPrefix]_vars

\* ------------------------------------------------- options down the tree
\* a root dict whose keys carry a prefix, holding a list that holds a dict
NestedOptions ==
  {Options(TRUE, KeyPrefixStr("@"), TRUE),
   Options(FALSE, KeyPrefixList(<<Prefix("_"), Prefix("@")>>), FALSE),
   Options(TRUE, KeyPrefixNone, FALSE),
   DefaultOptions}
NestedRoots == {DictRef(1), ListRef(1)}
NestedValues == {StrB, Int1}

InitNested ==
  /\ dicts = [i \in DictIds |->
               IF i = 1 THEN [k \in {"@l"} |-> ListRef(1)]
               ELSE [k \in {"@f", "l"} |-> StrA]]
  /\ lists = [i \in ListIds |-> <<StrA, DictRef(2)>>]
  /\ px = [i \in ProxyIds |-> NoProxy]
  /\ last = Returned("init", NoVal)

NextNested ==
  \/ \E q \in ProxyIds, data \in NestedRoots, opts \in NestedOptions :
       SameOptions(opts) /\ wrap(q, data, opts)
  \/ \E q \in ProxyIds, p \in ProxyIds, name \in Names :
       DictWrapper__getattr__(q, p, name)
  \/ \E p \in ProxyIds, name \in Names, value \in NestedValues :
       DictWrapper__setattr__(p, name, value)
  \/ \E q \in ProxyIds, p \in ProxyIds, index \in Indices :
       ListWrapper__getitem__(q, p, index)
  \/ \E p \in ProxyIds, index \in Indices, value \in NestedValues :
       ListWrapper__setitem__(p, index, value)

SpecNested == InitNested /\ [][NextNested]_vars

\* ------------------------------------------------- adding and deleting keys
FieldNames == {"f", "g"}
FieldRoots == {DictRef(1), ListRef(1), StrA}
\* first arguments of add_attribute and del_attribute that are no proxies
FieldPlain == {DictRef(1), StrA}
FieldOptions ==
  {DefaultOptions,
   Options(FALSE, KeyPrefixStr("@"), TRUE),
   Options(TRUE, KeyPrefixStr("@"), FALSE)}

\* the root dict has a bare key and a prefixed one
InitFields ==
  /\ dicts = [i \in DictIds |->
               IF i = 1 THEN [k \in {"f", "@g"} |->
                                IF k = "f" THEN StrA ELSE StrB]
               ELSE [k \in {"f"} |-> StrA]]
  /\ lists = [i \in ListIds |-> <<StrA>>]
  /\ px = [i \in ProxyIds |-> NoProxy]
  /\ last = Returned("init", NoVal)

NextFields ==
  \/ \E q \in ProxyIds, data \in FieldRoots, opts \in FieldOptions :
       SameOptions(opts) /\ wrap(q, data, opts)
  \/ \E q \in ProxyIds, p \in ProxyIds, name \in FieldNames :
       DictWrapper__getattr__(q, p, name)
  \/ \E p \in ProxyIds, name \in FieldNames, value \in NestedValues :
       DictWrapper__setattr__(p, name, value)
  \/ \E p \in ProxyIds \cup {0}, w \in FieldPlain \cup {NoVal},
        name \in FieldNames, value \in NestedValues :
       add_attribute(p, w, name, value)
  \/ \E p \in ProxyIds \cup {0}, w \in FieldPlain \cup {NoVal},
        name \in FieldNames :
       del_attribute(p, w, name)

SpecFields == InitFields /\ [][NextFields]_vars

\* ---------------------------------------------------------------- iteration
IterOptions == {DefaultOptions, Options(TRUE, KeyPrefixStr("@"), TRUE)}

\* a list of one dict, which the caller lets grow
InitIter ==
  /\ dicts = [i \in DictIds |->
               IF i = 1 THEN [k \in {"l"} |-> ListRef(1)]
               ELSE [k \in {"f"} |-> StrA]]
  /\ lists = [i \in ListIds |-> <<DictRef(2)>>]
  /\ px = [i \in ProxyIds |-> NoProxy]
  /\ last = Returned("init", NoVal)

\* the wrapped list only grows here, so it is unmodified since iter()
\* exactly when it equals the iterator's snap
NextIter ==
  \/ \E q \in ProxyIds, opts \in IterOptions :
       SameOptions(opts) /\ wrap(q, ListRef(1), opts)
  \/ \E q \in ProxyIds, p \in ProxyIds : ListWrapper__iter__(q, p)
  \/ \E q \in ProxyIds, p \in ProxyIds : ListWrapperIterator__next__(q, p)
  \/ \E p \in ProxyIds, item \in ElemValues : ListWrapper_append(p, item)

SpecIter == InitIter /\ [][NextIter]_vars

\* ================================================================ claims
IsList(p) == px[p].cls = "ListWrapper"
IsDict(p) == px[p].cls = "DictWrapper"

\* two caller variables hold proxies of the same class over one container
SameContainer(p, q) ==
  /\ px[p].cls # "none"
  /\ px[p].cls = px[q].cls
  /\ px[p].data = px[q].data

\* C1: every successful field set, index set or append has put the value
\* into the wrapped dict or list itself, and reading that field or index
\* through any proxy over the same container then gives the written value.
C1_WriteThrough ==
  [][/\ (last'.op = "setattr" /\ last'.err = "none") =>
          \A p \in ProxyIds, name \in Names, value \in FieldValues :
            DictWrapper__setattr__(p, name, value) =>
               /\ name \in DOMAIN dicts'[px[p].data.val]
               /\ dicts'[px[p].data.val][name] = value
               /\ \A q \in ProxyIds :
                    (px'[q].cls = "DictWrapper" /\ px'[q].data = px[p].data)
                      => AttrRead(dicts', px'[q], name) = value
     /\ (last'.op = "setitem" /\ last'.err = "none") =>
          \A p \in ProxyIds, index \in Indices, value \in ElemValues :
            ListWrapper__setitem__(p, index, value) =>
               /\ InRange(index, Len(lists'[px[p].data.val]))
               /\ Len(lists'[px[p].data.val]) = Len(lists[px[p].data.val])
               /\ lists'[px[p].data.val][
                    NormIndex(index, Len(lists[px[p].data.val])) + 1] = value
               /\ \A q \in ProxyIds :
                    (px'[q].cls = "ListWrapper" /\ px'[q].data = px[p].data)
                      => ItemRead(lists', px'[q], index) = value
     /\ (last'.op = "append" /\ last'.err = "none") =>
          \A p \in ProxyIds, item \in ElemValues :
            ListWrapper_append(p, item) =>
               /\ lists'[px[p].data.val] = lists[px[p].data.val] \o <<item>>
               /\ \A q \in ProxyIds :
                    (px'[q].cls = "ListWrapper" /\ px'[q].data = px[p].data)
                      => ItemRead(lists', px'[q], 0 - 1) = item
    ]_vars

\* a field of the nested dict, reached through the list of the root dict,
\* has been set while two proxies wrap that dict
C1_Witness ==
  /\ last.op = "setattr"
  /\ last.err = "none"
  /\ \A p \in ProxyIds : IsDict(p) /\ px[p].data = DictRef(2)
  /\ dicts[2]["f"] = StrB

\* C2: len() of a ListWrapper is the current length of the list it wraps.
C2_LengthIsCurrent ==
  [][\A p \in ProxyIds :
       (last'.op = "len" /\ ListWrapper__len__(p)) =>
         last'.ret = [kind |-> "int", val |-> Len(lists[px[p].data.val])]
    ]_vars

\* C3: two distinct DictWrappers are equal iff the dicts they wrap are equal,
\* a DictWrapper equals a bare dict iff that dict equals the wrapped one, and
\* it never equals a value that is no dict.
C3_MappingEquality ==
  [][/\ \A p \in ProxyIds, q \in ProxyIds :
          (/\ last'.op = "eq" /\ p # q /\ IsDict(p) /\ IsDict(q)
           /\ ProxyEq(p, q)) =>
             (last'.ret = PyBool(PyEq(dicts, lists, px[p].data, px[q].data)))
     /\ \A p \in ProxyIds, value \in Plain :
          (last'.op = "eq" /\ IsDict(p) /\ PlainEq(p, value)) =>
             (last'.ret = PyBool(/\ value.kind = "dict"
                                 /\ PyEq(dicts, lists, px[p].data, value)))
    ]_vars

\* C4: two ListWrappers over the same list are equal to each other and to
\* the list itself.
C4_SequenceEquality ==
  [][/\ \A p \in ProxyIds, q \in ProxyIds :
          (/\ last'.op = "eq" /\ IsList(p) /\ SameContainer(p, q)
           /\ ProxyEq(p, q)) =>
             last'.ret = PyBool(TRUE)
     /\ \A p \in ProxyIds :
          (last'.op = "eq" /\ IsList(p) /\ PlainEq(p, px[p].data)) =>
             last'.ret = PyBool(TRUE)
    ]_vars

\* C5: every field set, index set, append and remove through a proxy that
\* descends from a wrap(..., mutable=False) fails as immutable and leaves
\* every dict and list as it was.
C5_Immutable ==
  [][\A p \in ProxyIds :
       (/\ last'.op \in {"setattr", "setitem", "append", "remove"}
        /\ px[p].cls # "none"
        /\ ~px[p].origin.mutable
        /\ \/ \E name \in Names, value \in FieldValues :
                DictWrapper__setattr__(p, name, value)
           \/ \E index \in Indices, value \in ElemValues :
                ListWrapper__setitem__(p, index, value)
           \/ \E item \in ElemValues : ListWrapper_append(p, item)
           \/ \E item \in ElemValues : ListWrapper_remove(p, item))
       => /\ last'.err = "Immutable"
          /\ last'.exc = "AttributeError"
          /\ dicts' = dicts
          /\ lists' = lists
    ]_vars

\* a strict, immutable run: the nested dict's proxies, both obtained by
\* reads, have refused a field set
C5_Witness ==
  /\ last.op = "setattr"
  /\ last.err = "Immutable"
  /\ \A p \in ProxyIds :
       IsDict(p) /\ px[p].data = DictRef(2) /\ px[p].origin.strict
                 /\ ~px[p].origin.mutable
  /\ dicts[2]["f"] = StrA

\* the first position of l whose element equals item, 0 if there is none
FirstOccurrence(l, item) ==
  IF \E i \in 1..Len(l) : PyEq(dicts, lists, l[i], item)
  THEN CHOOSE i \in 1..Len(l) :
         /\ PyEq(dicts, lists, l[i], item)
         /\ \A j \in 1..Len(l) : PyEq(dicts, lists, l[j], item) => i <= j
  ELSE 0

\* C7: remove(item) through a mutable ListWrapper fails as not found iff
\* item is not in the wrapped list at the time of the call; otherwise the
\* wrapped list loses exactly its first occurrence of item.
C7_RemoveFirst ==
  [][\A p \in ProxyIds, item \in ElemValues :
       (/\ last'.op = "remove"
        /\ IsList(p)
        /\ px[p].mutable
        /\ ListWrapper_remove(p, item)) =>
          LET l == lists[px[p].data.val]
              j == FirstOccurrence(l, item)
          IN IF j = 0
             THEN last'.err = "ValueNotFound" /\ lists' = lists
             ELSE /\ last'.err = "none"
                  /\ lists'[px[p].data.val] =
                       [i \in 1..(Len(l) - 1) |->
                          IF i < j THEN l[i] ELSE l[i + 1]]
    ]_vars

\* C8: px[p].<name> += xs and px[p] += xs extend the wrapped list in place:
\* afterwards that list ends with xs and the field still holds that list.
C8_ConcatInPlace ==
  [][/\ \A p \in ProxyIds, name \in Names, xs \in Addends :
          (/\ last'.op = "iadd" /\ last'.err = "none"
           /\ DictWrapper_iadd(p, name, xs)) =>
             LET l == dicts[px[p].data.val][name]
             IN /\ dicts'[px[p].data.val][name] = l
                /\ lists'[l.val] = lists[l.val] \o xs
     /\ \A p \in ProxyIds, xs \in Addends :
          (/\ last'.op = "iadd" /\ last'.err = "none"
           /\ IsList(p) /\ px[p].mutable
           /\ ListWrapper__iadd__(p, xs)) =>
             lists'[px[p].data.val] = lists[px[p].data.val] \o xs
    ]_vars

\* C10: wrap gives a DictWrapper for a dict and a ListWrapper for a list;
\* unwrap of a proxy, whether it came from wrap or from reading a field or
\* an index, is the very dict or list it was made for; unwrap of a value
\* that is no proxy is that value.
C10_RoundTrip ==
  [][/\ last'.op = "wrap" =>
          \A q \in ProxyIds, data \in Plain, opts \in WrapOptions :
            (IsRef(data) /\ wrap(q, data, opts)) =>
               /\ last'.err = "none"
               /\ px'[q].cls = (IF data.kind = "dict" THEN "DictWrapper"
                                ELSE "ListWrapper")
               /\ Unwrapped(px'[q]) = data
     /\ (last'.op = "getattr" /\ last'.err = "none") =>
          \A q \in ProxyIds, p \in ProxyIds, name \in Names :
            (/\ DictWrapper__getattr__(q, p, name)
             /\ IsRef(dicts[px[p].data.val][name])) =>
               Unwrapped(px'[q]) = dicts[px[p].data.val][name]
     /\ (last'.op = "getitem" /\ last'.err = "none") =>
          \A q \in ProxyIds, p \in ProxyIds, index \in Indices :
            (/\ ListWrapper__getitem__(q, p, index)
             /\ IsRef(lists[px[p].data.val][
                        NormIndex(index, Len(lists[px[p].data.val])) + 1])) =>
               Unwrapped(px'[q]) =
                 lists[px[p].data.val][
                   NormIndex(index, Len(lists[px[p].data.val])) + 1]
     /\ last'.op = "unwrap" =>
          /\ \A p \in ProxyIds :
               unwrap(p, NoVal) => last'.ret = px[p].data
          /\ \A value \in Plain :
               unwrap(0, value) => last'.ret = value
    ]_vars

\* unwrap of a proxy that a read through the root's list gave has returned
\* the nested dict
C10_Witness ==
  /\ last.op = "unwrap"
  /\ last.ret = DictRef(2)
  /\ \E p \in ProxyIds : IsDict(p) /\ px[p].data = DictRef(2)
  /\ \E p \in ProxyIds : IsList(p) /\ px[p].data = ListRef(1)

\* C6: on a mutable strict DictWrapper, setting a present field fails as a
\* type mismatch and changes nothing when the kind of the new value differs
\* from the kind of the stored one, and stores the value when the kinds are
\* the same.
C6_StrictKinds ==
  [][\A p \in ProxyIds, name \in Names, value \in KindValues :
       (/\ last'.op = "setattr"
        /\ IsDict(p)
        /\ px[p].mutable
        /\ px[p].strict
        /\ name \in DOMAIN dicts[px[p].data.val]
        /\ DictWrapper__setattr__(p, name, value)) =>
          IF value.kind # dicts[px[p].data.val][name].kind
          THEN last'.err = "TypeMismatch" /\ dicts' = dicts
          ELSE /\ last'.err = "none"
               /\ dicts'[px[p].data.val][name] = value
    ]_vars

\* the prefix strings a proxy was configured with, in order
Configured(proxy) ==
  [i \in 1..Len(proxy.origin.key_prefix.v) |-> proxy.origin.key_prefix.v[i].s]

\* prefix+name for the first configured prefix that gives a key of d, the
\* bare name if none does
Resolved(prefixes, d, name) ==
  IF \E i \in 1..Len(prefixes) : (prefixes[i] \o name) \in DOMAIN d
  THEN LET i == CHOOSE i \in 1..Len(prefixes) :
                  /\ (prefixes[i] \o name) \in DOMAIN d
                  /\ \A j \in 1..Len(prefixes) :
                       (prefixes[j] \o name) \in DOMAIN d => i <= j
       IN prefixes[i] \o name
  ELSE name

\* C9: with prefixes configured, get and set use prefix+name for the first
\* prefix, in configured order, that gives a key of the dict, and the bare
\* name otherwise; a missing field is reported under the bare name and a set
\* creates no key.
C9_PrefixResolution ==
  [][/\ \A q \in ProxyIds, p \in ProxyIds, name \in PrefixNames :
          (/\ last'.op = "getattr"
           /\ IsDict(p)
           /\ px[p].origin.key_prefix.t # "none"
           /\ DictWrapper__getattr__(q, p, name)) =>
             LET d == dicts[px[p].data.val]
                 k == Resolved(Configured(px[p]), d, name)
             IN IF k \in DOMAIN d
                THEN last'.err = "none" /\ last'.ret = d[k]
                ELSE /\ last'.err = "NoSuchField"
                     /\ last'.msgkey = name
     /\ \A p \in ProxyIds, name \in PrefixNames, value \in PrefixValues :
          (/\ last'.op = "setattr"
           /\ IsDict(p)
           /\ px[p].origin.key_prefix.t # "none"
           /\ DictWrapper__setattr__(p, name, value)) =>
             LET d == dicts[px[p].data.val]
                 k == Resolved(Configured(px[p]), d, name)
             IN IF k \in DOMAIN d
                THEN /\ last'.err = "none"
                     /\ dicts' = [dicts EXCEPT ![px[p].data.val][k] = value]
                ELSE /\ last'.err = "NoSuchField"
                     /\ last'.msgkey = name
                     /\ dicts' = dicts
    ]_vars

\* with prefixes "_" then "@" and the keys f, @f and _f all present, a set
\* of f has written _f and nothing else
C9_Witness ==
  /\ last.op = "setattr"
  /\ last.err = "none"
  /\ \E p \in ProxyIds :
       /\ IsDict(p)
       /\ px[p].origin.key_prefix =
            KeyPrefixList(<<Prefix("_"), Prefix("@")>>)
  /\ DOMAIN dicts[1] = {"f", "@f", "_f"}
  /\ dicts[1]["_f"] = Flt15
  /\ dicts[1]["@f"] = FirstValue("@f")
  /\ dicts[1]["f"] = FirstValue("f")

\* the prefixes a proxy resolves keys with, or hands to the DictWrappers
\* built below it
EffectivePrefixes(proxy) ==
  IF proxy.cls = "DictWrapper" THEN proxy.key_prefixes
  ELSE NormalizePrefix(proxy.key_prefix)

SameAttributes(child, parent) ==
  /\ child.strict = parent.strict
  /\ child.mutable = parent.mutable
  /\ EffectivePrefixes(child) = EffectivePrefixes(parent)

\* C11: a proxy that a read of a field or of an index gives has the strict
\* flag, the mutable flag and the effective key prefixes of the proxy it
\* was read through.
C11_Propagation ==
  [][/\ (last'.op = "getattr" /\ last'.err = "none") =>
          \A q \in ProxyIds, p \in ProxyIds, name \in Names :
            (/\ DictWrapper__getattr__(q, p, name)
             /\ IsRef(AttrRead(dicts, px[p], name))) =>
               /\ px'[q].data = AttrRead(dicts, px[p], name)
               /\ SameAttributes(px'[q], px[p])
     /\ (last'.op = "getitem" /\ last'.err = "none") =>
          \A q \in ProxyIds, p \in ProxyIds, index \in Indices :
            (/\ ListWrapper__getitem__(q, p, index)
             /\ IsRef(ItemRead(lists, px[p], index))) =>
               /\ px'[q].data = ItemRead(lists, px[p], index)
               /\ SameAttributes(px'[q], px[p])
    ]_vars

\* under a strict root dict with prefix "@", the dict nested in the root's
\* list has refused an int for its string field f, found under the key @f
C11_Witness ==
  /\ last.op = "setattr"
  /\ last.err = "TypeMismatch"
  /\ last.msgkey = "@f"
  /\ \E p \in ProxyIds :
       /\ IsDict(p)
       /\ px[p].data = DictRef(2)
       /\ px[p].origin = Options(TRUE, KeyPrefixStr("@"), TRUE)
  /\ \E p \in ProxyIds : IsList(p)

\* the call failed as an unsupported type, with Python's TypeError, and no
\* dict or list has changed
FailedUnsupported ==
  /\ last'.err = "UnsupportedType"
  /\ last'.exc = "TypeError"
  /\ dicts' = dicts
  /\ lists' = lists

\* C12: wrap of a value that is neither dict nor list, and add_attribute
\* and del_attribute with a first argument that is no DictWrapper, fail
\* with TypeError and change no data.
C12_UnsupportedType ==
  [][/\ last'.op = "wrap" =>
          \A q \in ProxyIds, data \in FieldRoots, opts \in FieldOptions :
            (~IsRef(data) /\ wrap(q, data, opts)) => FailedUnsupported
     /\ last'.op = "add_attribute" =>
          \A p \in ProxyIds \cup {0}, w \in FieldPlain \cup {NoVal},
             name \in FieldNames, value \in NestedValues :
            (~IsDictWrapperArg(p) /\ add_attribute(p, w, name, value)) =>
               FailedUnsupported
     /\ last'.op = "del_attribute" =>
          \A p \in ProxyIds \cup {0}, w \in FieldPlain \cup {NoVal},
             name \in FieldNames :
            (~IsDictWrapperArg(p) /\ del_attribute(p, w, name)) =>
               FailedUnsupported
    ]_vars

\* add_attribute on a DictWrapper, whatever its options, has stored the
\* value under exactly the given name and left every other key alone
AddStoresUnderName ==
  last'.op = "add_attribute" =>
    \A p \in ProxyIds, name \in FieldNames, value \in NestedValues :
      (IsDict(p) /\ add_attribute(p, NoVal, name, value)) =>
         /\ last'.err = "none"
         /\ dicts'[px[p].data.val] =
              DictSet(dicts[px[p].data.val], name, value)
         /\ \A i \in DictIds \ {px[p].data.val} : dicts'[i] = dicts[i]

\* no call but add_attribute gives a dict a key it did not have
OnlyAddCreates ==
  (\E i \in DictIds : ~(DOMAIN dicts'[i] \subseteq DOMAIN dicts[i])) =>
     last'.op = "add_attribute"

\* C13 as stated: add_attribute stores under exactly the name on any
\* DictWrapper; no field set changes the keys of a dict; and a field set
\* whose resolved key is absent fails as no such field and changes nothing.
C13_OnlyAddCreatesKeys ==
  [][/\ AddStoresUnderName
     /\ OnlyAddCreates
     /\ last'.op = "setattr" =>
          \A p \in ProxyIds, name \in FieldNames, value \in NestedValues :
            DictWrapper__setattr__(p, name, value) =>
               /\ \A i \in DictIds : DOMAIN dicts'[i] = DOMAIN dicts[i]
               /\ DictWrapper_fix_key(px[p], dicts[px[p].data.val], name)
                     \notin DOMAIN dicts[px[p].data.val] =>
                       /\ last'.err = "NoSuchField"
                       /\ dicts' = dicts
    ]_vars

\* C13, amended: as stated, but a field set whose resolved key is absent
\* fails as no such field on a mutable DictWrapper and as immutable on an
\* immutable one; either way it changes nothing.
C13_OnlyAddCreatesKeysMutable ==
  [][/\ AddStoresUnderName
     /\ OnlyAddCreates
     /\ last'.op = "setattr" =>
          \A p \in ProxyIds, name \in FieldNames, value \in NestedValues :
            DictWrapper__setattr__(p, name, value) =>
               /\ \A i \in DictIds : DOMAIN dicts'[i] = DOMAIN dicts[i]
               /\ DictWrapper_fix_key(px[p], dicts[px[p].data.val], name)
                     \notin DOMAIN dicts[px[p].data.val] =>
                       /\ last'.err = (IF px[p].mutable THEN "NoSuchField"
                                       ELSE "Immutable")
                       /\ dicts' = dicts
    ]_vars

\* through a strict, immutable DictWrapper with prefix "@", add_attribute
\* has created the bare key g beside the key @g
C13_Witness ==
  /\ last.op = "add_attribute"
  /\ last.err = "none"
  /\ \E p \in ProxyIds :
       /\ IsDict(p)
       /\ px[p].data = DictRef(1)
       /\ px[p].origin = Options(TRUE, KeyPrefixStr("@"), FALSE)
  /\ DOMAIN dicts[1] = {"f", "g", "@g"}
  /\ dicts[1]["g"] = Int1
  /\ dicts[1]["@g"] = StrB

\* C14: del_attribute on a DictWrapper deletes the key of exactly the given
\* name, leaves every other key and value alone and returns the value the
\* key held; if the name is no key it fails with KeyError and the dict is
\* unchanged.
C14_DelAttribute ==
  [][last'.op = "del_attribute" =>
       \A p \in ProxyIds, name \in FieldNames :
         (IsDict(p) /\ del_attribute(p, NoVal, name)) =>
            LET d == dicts[px[p].data.val]
            IN IF name \in DOMAIN d
               THEN /\ last'.err = "none"
                    /\ last'.ret = d[name]
                    /\ DOMAIN dicts'[px[p].data.val] = DOMAIN d \ {name}
                    /\ \A k \in DOMAIN d \ {name} :
                         dicts'[px[p].data.val][k] = d[k]
                    /\ \A i \in DictIds \ {px[p].data.val} :
                         dicts'[i] = dicts[i]
               ELSE /\ last'.exc = "KeyError"
                    /\ last'.msgkey = name
                    /\ dicts' = dicts
    ]_vars

\* del_attribute has deleted the key f and returned its value, the key @g
\* is still there
C14_Witness ==
  /\ last.op = "del_attribute"
  /\ last.err = "none"
  /\ last.ret = StrA
  /\ DOMAIN dicts[1] = {"@g"}
  /\ dicts[1]["@g"] = StrB
  /\ \E p \in ProxyIds : IsDict(p) /\ px[p].data = DictRef(1)

\* C15: a call that ends in an error, of whatever kind, has left every dict
\* and every list as it was before the call; in particular an index set
\* that fails as out of range has written nothing to the wrapped list.
C15_NoPartialMutation ==
  [][/\ last'.err # "none" => (dicts' = dicts /\ lists' = lists)
     /\ (last'.op = "setitem" /\ last'.err = "IndexOutOfRange") =>
          \A p \in ProxyIds, index \in Indices, value \in ElemValues :
            ListWrapper__setitem__(p, index, value) =>
               lists'[px[p].data.val] = lists[px[p].data.val]
    ]_vars

\* C16: a DictWrapper built with no key prefix reads and writes exactly the
\* key that is the name asked for, and fails as no such field whenever the
\* name itself is no key of the dict, whatever other keys the dict has.
C16_NoPrefix ==
  [][/\ last'.op = "getattr" =>
          \A q \in ProxyIds, p \in ProxyIds, name \in PrefixNames :
            (/\ IsDict(p)
             /\ px[p].origin.key_prefix = KeyPrefixNone
             /\ DictWrapper__getattr__(q, p, name)) =>
               LET d == dicts[px[p].data.val]
               IN IF name \in DOMAIN d
                  THEN last'.err = "none" /\ last'.ret = d[name]
                  ELSE last'.err = "NoSuchField" /\ last'.msgkey = name
     /\ last'.op = "setattr" =>
          \A p \in ProxyIds, name \in PrefixNames, value \in PrefixValues :
            (/\ IsDict(p)
             /\ px[p].origin.key_prefix = KeyPrefixNone
             /\ DictWrapper__setattr__(p, name, value)) =>
               LET d == dicts[px[p].data.val]
               IN IF name \in DOMAIN d
                  THEN /\ last'.err = "none"
                       /\ dicts' = [dicts EXCEPT
                                      ![px[p].data.val][name] = value]
                  ELSE /\ last'.err = "NoSuchField"
                       /\ last'.msgkey = name
                       /\ dicts' = dicts
    ]_vars

\* the plain value behind what an iteration produced
Underlying(v) == IF "cls" \in DOMAIN v THEN v.data ELSE v

\* what get(i) gives: a DictWrapper for a dict, a ListWrapper for a list,
\* with the attributes of the ListWrapper read through, else the element
IsGetResult(ret, element, list_wrapper) ==
  IF IsRef(element)
  THEN /\ ret.cls = (IF element.kind = "dict" THEN "DictWrapper"
                     ELSE "ListWrapper")
       /\ ret.data = element
       /\ SameAttributes(ret, list_wrapper)
  ELSE ret = element

\* C17: iter() starts at index 0; each next() gives what get(idx) gives on
\* the wrapped list as it is at that step and moves on by one, and stops
\* once idx has reached the current length; so when an iteration stops it
\* has produced the whole wrapped list in order, an element appended
\* meanwhile included, and exactly the list as it was at iter() if nothing
\* was appended.
C17_Iteration ==
  [][/\ last'.op = "iter" =>
          \A q \in ProxyIds, p \in ProxyIds :
            ListWrapper__iter__(q, p) =>
               /\ px'[q].idx = 0
               /\ px'[q].list_wrapper.data = px[p].data
     /\ last'.op = "next" =>
          \A q \in ProxyIds, p \in ProxyIds :
            ListWrapperIterator__next__(q, p) =>
               LET it == px[p]
                   l == lists[it.list_wrapper.data.val]
               IN IF it.idx < Len(l)
                  THEN /\ last'.err = "none"
                       /\ IsGetResult(last'.ret, l[it.idx + 1],
                                      it.list_wrapper)
                       /\ px'[p].idx = it.idx + 1
                  ELSE /\ last'.exc = "StopIteration"
                       /\ Len(it.yielded) = Len(l)
                       /\ \A i \in 1..Len(l) :
                            Underlying(it.yielded[i]) = l[i]
                       /\ l = it.snap => Len(it.yielded) = Len(it.snap)
    ]_vars

\* an iteration that began over a list of one element has stopped after
\* two: the dict, wrapped, and the string appended while it was under way
C17_Witness ==
  /\ last.op = "next"
  /\ last.exc = "StopIteration"
  /\ \E p \in ProxyIds :
       /\ px[p].cls = "_ListWrapperIterator"
       /\ Len(px[p].snap) = 1
       /\ Len(px[p].yielded) = 2
       /\ px[p].yielded[1].cls = "DictWrapper"
       /\ px[p].yielded[2] = StrA
       /\ px[p].idx = 2

====
